---- MODULE Spec2Model ----
(***************************************************************************)
(* Model of the name-based facade of rebop (src/src/pylib.rs): the         *)
(* `Gillespie` class with `add_reaction` and `run`, driving the SSA        *)
(* engine `gillespie::Gillespie`.                                          *)
(*                                                                         *)
(* The engine (crate::gillespie) is not part of src/; its operations are   *)
(* modelled from spec.md sections 3, 4.1, 4.2, 4.4, 4.5 and 4.6.           *)
(*                                                                         *)
(* Time is counted in ticks.  The f64 arithmetic of run (the product and   *)
(* the quotient of tmax * i / nb_steps) is IEEE 754 arithmetic scaled      *)
(* down: a binary format with MantissaBits significant bits, round to      *)
(* nearest, ties to even, whose smallest subnormal is one tick, so that    *)
(* every value is a whole number of ticks.  The engine's own arithmetic    *)
(* (t := t + dt) is the exact arithmetic of spec.md.  Rust's 0-based       *)
(* vectors indexed by a species id are functions over 0..N-1; vectors that *)
(* are only pushed to and iterated are sequences (1-based).  The cast     *)
(* `value as isize` of run is the cast of a word of WordBits bits.         *)
(***************************************************************************)
EXTENDS Integers, Sequences, FiniteSets, TLC

VARIABLES
    species,    \* self.species : HashMap<String, usize>
    reactions,  \* self.reactions : Vec<(f64, Vec<String>, Vec<String>)>
    call,       \* the last facade call (add_reaction: with its arguments)
    args,       \* run's arguments init, tmax, nb_steps, seed
    pc,         \* position inside run: idle, grid, advance, event, done
    g,          \* run's engine: time t, counts x, lowered reactions
    rng,        \* the engine's random source: seed and number of draws made
    times,      \* run's local `times`
    series,     \* run's local `species` (one series per species id)
    i,          \* run's grid loop counter
    fires,      \* history: engine reaction index of every committed step
    result,     \* run's return value (times, map name -> series)
    prev        \* history: arguments and result of the last seeded run

vars == <<species, reactions, call, pc, args, g, rng, times, series, i, fires, result, prev>>

sysvars == <<species, reactions>>
runvars == <<pc, args, g, rng, times, series, i, fires, result>>
histvars == <<prev>>

----------------------------------------------------------------------------
(* Bounds of the model *)

\* longest reactant / product list drawn by the exhaustive add_reaction calls
MaxLen == 2
\* most names in the reaction list of SpecAdd when add_reaction is called
\* with one more
MaxNames == 4
\* most reactions in the list of SpecAdd
MaxAddReactions == 3
\* most reactions in the list before add_reaction is no longer called
MaxReactions == 2
\* largest nb_steps drawn
MaxSteps == 3
\* most samples run emits in event mode, and one more than the most
\* reactions the engine commits in one run
MaxSamples == 3

Names == {"A", "B"}
\* the names the exhaustive add_reaction calls of SpecAdd draw from
AddNames == {"A", "B", "C"}
Rates == {0, 1}
\* initial counts drawn for a name of init (a name left out starts at 0);
\* 5 is a usize above the largest isize of the scaled-down word
InitCounts == {1, 2, 5}
Seeds == {1}

\* tmax values drawn, in ticks (each one a value of the float format)
TmaxValues == {-24, 24}
\* values of the exponential draw -ln(u1)/A, in ticks; 0 is u1 = 1
DtValues == {0, 8, 100}

Min(a, b) == IF a < b THEN a ELSE b

\* Option<T>: None is <<>>, Some(v) is <<v>>
None == <<>>
Some(v) == <<v>>

NameLists(n) == UNION {[1..k -> AddNames] : k \in 0..n}

----------------------------------------------------------------------------
(* Gillespie::new and Gillespie::add_reaction *)

EmptyMap == [n \in {} |-> 0]

Insert(m, k, v) == [n \in DOMAIN m \cup {k} |-> IF n = k THEN v ELSE m[n]]

\* if !self.species.contains_key(name) { insert(name, self.species.len()) }
Register(sp, name) ==
    IF name \in DOMAIN sp THEN sp ELSE Insert(sp, name, Cardinality(DOMAIN sp))

\* for name in &list { ... }
RECURSIVE RegisterAll(_, _)
RegisterAll(sp, list) ==
    IF list = <<>> THEN sp
    ELSE RegisterAll(Register(sp, Head(list)), Tail(list))

Reaction(rate, reactants, products) ==
    [rate |-> rate, reactants |-> reactants, products |-> products]

\* the reverse reaction pushed with the lists of the forward one
PushReverse_NoSwap(rs, reactants, products, reverse_rate) ==
    IF reverse_rate = None THEN rs
    ELSE Append(rs, Reaction(reverse_rate[1], reactants, products))

\* the reverse reaction stored over the forward one instead of after it
PushReverse_Overwrite(rs, reactants, products, reverse_rate) ==
    IF reverse_rate = None THEN rs
    ELSE [rs EXCEPT ![Len(rs)] = Reaction(reverse_rate[1], products, reactants)]

\* if let Some(rrate) = reverse_rate { push((rrate, products, reactants)) }
PushReverse(rs, reactants, products, reverse_rate) ==
    IF reverse_rate = None THEN rs
    ELSE Append(rs, Reaction(reverse_rate[1], products, reactants))

\* add_reaction with its two registration loops exchanged
AddReaction_ProductsFirst(sys, rate, reactants, products, reverse_rate) ==
    LET sp == RegisterAll(RegisterAll(sys.species, products), reactants)
        rs == Append(sys.reactions, Reaction(rate, reactants, products))
    IN  [species |-> sp,
         reactions |-> IF reverse_rate = None THEN rs
                       ELSE Append(rs, Reaction(reverse_rate[1], products, reactants))]

\* the whole of add_reaction, on a system [species, reactions]
AddReaction(sys, rate, reactants, products, reverse_rate) ==
    LET sp == RegisterAll(RegisterAll(sys.species, reactants), products)
        rs == Append(sys.reactions, Reaction(rate, reactants, products))
    IN  [species |-> sp,
         reactions |-> PushReverse(rs, reactants, products, reverse_rate)]

System == [species |-> species, reactions |-> reactions]

NbSpecies == Cardinality(DOMAIN species)
NbReactions == Len(reactions)

----------------------------------------------------------------------------
(* The engine gillespie::Gillespie, from spec.md (its source is not in src/) *)

Zeros(n) == [id \in 0..(n - 1) |-> 0]

\* Rate::lma(k, s)
Lma(k, s) == [k |-> k, s |-> s]

\* gillespie::Gillespie::new / new_with_seed: t := 0, x := x0, no reactions
EngineNew(x0) == [t |-> 0, x |-> x0, reactions |-> <<>>]

\* gillespie::Gillespie::add_reaction(rate, change): appends
EngineAddReaction(e, rate, change) ==
    [e EXCEPT !.reactions = Append(@, [rate |-> rate, d |-> change])]

\* C(n, r) = n (n-1) ... (n-r+1), the falling factorial
RECURSIVE FallingFactorial(_, _)
FallingFactorial(n, r) ==
    IF r = 0 THEN 1 ELSE (n - (r - 1)) * FallingFactorial(n, r - 1)

RECURSIVE ProductUpTo(_, _, _)
ProductUpTo(x, s, n) ==
    IF n = 0 THEN 1
    ELSE ProductUpTo(x, s, n - 1) * FallingFactorial(x[n - 1], s[n - 1])

\* propensity(x) = k * prod_i C(x_i, s_i), exactly 0 when a reactant is exhausted
Propensity(rate, x) ==
    IF \E id \in DOMAIN x : x[id] < rate.s[id] THEN 0
    ELSE rate.k * ProductUpTo(x, rate.s, Cardinality(DOMAIN x))

\* step 1 of the kernel: a_j for every reaction, in insertion order
Propensities(e) ==
    [j \in 1..Len(e.reactions) |-> Propensity(e.reactions[j].rate, e.x)]

\* step 2: A, summed left to right
RECURSIVE SumUpTo(_, _)
SumUpTo(a, n) == IF n = 0 THEN 0 ELSE SumUpTo(a, n - 1) + a[n]

TotalRate(e) == SumUpTo(Propensities(e), Len(e.reactions))

\* A <= 0: no reaction can fire
Absorbing(e) == TotalRate(e) <= 0

\* step 4: the smallest j whose running sum exceeds the threshold
ChooseReaction(a, threshold) ==
    CHOOSE j \in 1..Len(a) :
        /\ SumUpTo(a, j) > threshold
        /\ \A m \in 1..(j - 1) : SumUpTo(a, m) <= threshold

\* step 5: t := t + dt, x := x + R_j.d
Commit(e, dt, j) ==
    [e EXCEPT !.t = @ + dt,
              !.x = [id \in DOMAIN e.x |-> e.x[id] + e.reactions[j].d[id]]]

\* the random source: a deterministic stream when seeded, and any value
\* when seeded from the operating system's entropy
DtSeq == <<0, 8, 100>>
Stream(seed, pos) == (seed * 5 + pos * pos * 3 + pos * seed) % 16
NewRng(seed) == [seed |-> seed, pos |-> 0]
\* the values the draw of dt = -ln(u1)/A can take (u1 in (0,1], so dt >= 0)
DrawDt(r) ==
    IF r.seed = None THEN DtValues
    ELSE {DtSeq[(Stream(r.seed[1], r.pos) % Len(DtSeq)) + 1]}
\* the values the threshold u2 * A can take (u2 in [0,1))
DrawThreshold(r, A) ==
    IF r.seed = None THEN 0..(A - 1)
    ELSE {Stream(r.seed[1], r.pos + 1) % A}
\* the source after the two draws of one kernel step
Drawn(r) == IF r.seed = None THEN r ELSE [r EXCEPT !.pos = @ + 2]

----------------------------------------------------------------------------
(* Gillespie::run *)

RECURSIVE Pow2(_)
Pow2(n) == IF n = 0 THEN 1 ELSE 2 * Pow2(n - 1)

\* usize and isize, scaled down: the number of bits of the word (64)
WordBits == 3

\* value as isize: a usize above the largest isize wraps to a negative one
AsIsize(value) ==
    IF value >= Pow2(WordBits - 1) THEN value - Pow2(WordBits) ELSE value

\* x0 left at its zeros, init never applied
X0_InitIgnored(sp, init) == Zeros(Cardinality(DOMAIN sp))

\* let mut x0 = vec![0; n]; for (name, &value) in &init { if let Some(&id) = ... }
X0(sp, init) ==
    [id \in 0..(Cardinality(DOMAIN sp) - 1) |->
        IF \E name \in DOMAIN init \cap DOMAIN sp : sp[name] = id
        THEN AsIsize(init[CHOOSE name \in DOMAIN init \cap DOMAIN sp : sp[name] = id])
        ELSE 0]

\* for name in list { vec[self.species[name]] += delta; }
RECURSIVE AddEach(_, _, _, _)
AddEach(vec, sp, list, delta) ==
    IF list = <<>> THEN vec
    ELSE AddEach([vec EXCEPT ![sp[Head(list)]] = @ + delta], sp, Tail(list), delta)

\* for name in list { vec[self.species[name]] = value; }
RECURSIVE SetEach(_, _, _, _)
SetEach(vec, sp, list, value) ==
    IF list = <<>> THEN vec
    ELSE SetEach([vec EXCEPT ![sp[Head(list)]] = value], sp, Tail(list), value)

\* vreactants with `= 1` in place of `+= 1`
VReactants_Presence(sp, reactants) ==
    SetEach(Zeros(Cardinality(DOMAIN sp)), sp, reactants, 1)

\* let mut vreactants = vec![0; n]; for reactant in reactants { ... += 1 }
VReactants(sp, reactants) ==
    AddEach(Zeros(Cardinality(DOMAIN sp)), sp, reactants, 1)

\* actions with `= -1` for the reactants in place of `-= 1`
Actions_Assign(sp, reactants, products) ==
    AddEach(SetEach(Zeros(Cardinality(DOMAIN sp)), sp, reactants, -1), sp, products, 1)

\* actions without the loop over the products
Actions_ReactantsOnly(sp, reactants, products) ==
    AddEach(Zeros(Cardinality(DOMAIN sp)), sp, reactants, -1)

\* let mut actions = vec![0; n]; reactants: -= 1; products: += 1
Actions(sp, reactants, products) ==
    AddEach(AddEach(Zeros(Cardinality(DOMAIN sp)), sp, reactants, -1), sp, products, 1)

\* for (rate, reactants, products) in self.reactions.iter() { ...; g.add_reaction(rate, actions); }
RECURSIVE LowerAll(_, _, _)
LowerAll(e, sp, rs) ==
    IF rs = <<>> THEN e
    ELSE LowerAll(EngineAddReaction(e,
                      Lma(Head(rs).rate, VReactants(sp, Head(rs).reactants)),
                      Actions(sp, Head(rs).reactants, Head(rs).products)),
                  sp, Tail(rs))

\* f64, scaled down: the number of significant bits (53 in an f64)
MantissaBits == 3

\* the spacing of the floats at num/den >= 0: the least power of two G >= g
\* with num/den < 2^MantissaBits * G (one tick for the subnormals)
RECURSIVE Spacing(_, _, _)
Spacing(num, den, G) ==
    IF num < Pow2(MantissaBits) * G * den THEN G ELSE Spacing(num, den, 2 * G)

\* num/den >= 0 rounded to the nearest float, ties to the even mantissa
RoundPositive(num, den) ==
    LET G == Spacing(num, den, 1)
        q == num \div (den * G)
        r == num - q * den * G
        up == \/ 2 * r > den * G
              \/ 2 * r = den * G /\ q % 2 = 1
    IN  (IF up THEN q + 1 ELSE q) * G

\* num/den (den > 0) rounded to the nearest float
FRound(num, den) ==
    IF num < 0 THEN 0 - RoundPositive(0 - num, den) ELSE RoundPositive(num, den)

\* a * k and a / n on f64
FMul(a, k) == FRound(a * k, 1)
FDiv(a, n) == FRound(a, n)

\* the quotient i / nb_steps taken on the integers, before the product
GridTime_IntegerQuotient(tmax, k, nb_steps) == FMul(tmax, k \div nb_steps)

\* let t = tmax * i as f64 / nb_steps as f64
GridTime(tmax, k, nb_steps) == FDiv(FMul(tmax, k), nb_steps)

\* the loop over the species started at 1
PushSpecies_FromOne(ser, e) ==
    [s \in DOMAIN ser |-> IF s = 0 THEN ser[s] ELSE Append(ser[s], e.x[s])]

\* for s in 0..self.species.len() { species[s].push(g.get_species(s)); }
PushSpecies(ser, e) == [s \in DOMAIN ser |-> Append(ser[s], e.x[s])]

\* while g.get_time() < tmax
EventLoopCond(e, tmax) == e.t < tmax

\* for (name, &id) in &self.species { result.insert(name.clone(), species[id].clone()); }
ResultMap(sp, ser) == [name \in DOMAIN sp |-> ser[sp[name]]]

NoArgs == [init |-> EmptyMap, tmax |-> 0, nb_steps |-> 0, seed |-> None]


\* the run arguments the model draws
InitMaps == UNION {[ks -> InitCounts] : ks \in SUBSET Names}

\* the engine's random source with the seed ignored
SeedEngine_Unseeded(seed) == NewRng(None)

\* match seed { Some(seed) => new_with_seed(x0, seed), None => new(x0) }
SeedEngine(seed) == IF seed = None THEN NewRng(None) ELSE NewRng(Some(seed[1]))

\* lines 313-341, and in event mode lines 353-357, for arguments drawn
\* from the given sets
RunCall(inits, tmaxs, steps, seeds) ==
    /\ pc = "idle"
    /\ \E init \in inits, tmax \in tmaxs, nb_steps \in steps, seed \in seeds :
        LET e == LowerAll(EngineNew(X0(species, init)), species, reactions)
            empty == [s \in 0..(NbSpecies - 1) |-> <<>>]
        IN  /\ call' = [op |-> "run"]
            /\ args' = [init |-> init, tmax |-> tmax,
                        nb_steps |-> nb_steps, seed |-> seed]
            /\ g' = e
            /\ rng' = SeedEngine(seed)
            /\ i' = 0
            /\ fires' = <<>>
            /\ result' = None
            /\ IF nb_steps > 0
               THEN /\ times' = <<>>
                    /\ series' = empty
                    /\ pc' = "grid"
               ELSE /\ times' = <<e.t>>
                    /\ series' = PushSpecies(empty, e)
                    /\ pc' = "event"
    /\ UNCHANGED <<sysvars, histvars>>

\* run called with any of the arguments the model draws
RunStart ==
    RunCall(InitMaps, TmaxValues, 0..MaxSteps, {None} \cup {Some(sd) : sd \in Seeds})

\* lines 343-346: the grid time is pushed and advance_until(t) is entered
GridPush ==
    /\ pc = "grid"
    /\ i <= args.nb_steps
    /\ times' = Append(times, GridTime(args.tmax, i, args.nb_steps))
    /\ pc' = "advance"
    /\ UNCHANGED <<sysvars, histvars, call, args, g, rng, series, i, fires, result>>

\* t_target of the advance_until call in progress
Target == times[Len(times)]

\* advance_until: one kernel step that is committed (t + dt <= t_target)
AdvanceCommit ==
    /\ pc = "advance"
    /\ ~Absorbing(g)
    /\ Len(fires) < MaxSamples - 1
    /\ \E dt \in DrawDt(rng), th \in DrawThreshold(rng, TotalRate(g)) :
        LET j == ChooseReaction(Propensities(g), th)
        IN  /\ g.t + dt <= Target
            /\ g' = Commit(g, dt, j)
            /\ fires' = Append(fires, j)
    /\ rng' = Drawn(rng)
    /\ UNCHANGED <<sysvars, histvars, call, args, pc, times, series, i, result>>

\* the end of lines 346-349: series samples pushed, next i
GridSample(e) ==
    /\ series' = PushSpecies(series, e)
    /\ i' = i + 1
    /\ pc' = "grid"

\* advance_until returns because the system is absorbing; t stays at its
\* last value (section 4.4) or is t_target (section 8, scenario 6)
AdvanceAbsorbing ==
    /\ pc = "advance"
    /\ Absorbing(g)
    /\ \E t \in {g.t, Target} :
        /\ g' = [g EXCEPT !.t = t]
        /\ GridSample(g')
    /\ UNCHANGED <<sysvars, histvars, call, args, rng, times, fires, result>>

\* advance_until returns because the sampled step passes t_target: the step
\* is discarded and t := t_target
AdvanceDiscard ==
    /\ pc = "advance"
    /\ ~Absorbing(g)
    /\ \E dt \in DrawDt(rng) :
        /\ g.t + dt > Target
        /\ g' = [g EXCEPT !.t = Target]
        /\ GridSample(g')
    /\ rng' = Drawn(rng)
    /\ UNCHANGED <<sysvars, histvars, call, args, times, fires, result>>

\* _advance_one_reaction: one step, or none when the system is absorbing
AdvanceOneReaction(e, dt, th) ==
    IF Absorbing(e) THEN e
    ELSE Commit(e, dt, ChooseReaction(Propensities(e), th))

\* the event loop with times.push(g.get_time()) before the step
EventStep_TimeBeforeStep ==
    /\ pc = "event"
    /\ EventLoopCond(g, args.tmax)
    /\ Len(times) < MaxSamples
    /\ \E dt \in DrawDt(rng),
          th \in IF Absorbing(g) THEN {0} ELSE DrawThreshold(rng, TotalRate(g)) :
        /\ g' = AdvanceOneReaction(g, dt, th)
        /\ fires' = IF Absorbing(g) THEN fires
                    ELSE Append(fires, ChooseReaction(Propensities(g), th))
        /\ times' = Append(times, g.t)
        /\ series' = PushSpecies(series, g')
    /\ rng' = IF Absorbing(g) THEN rng ELSE Drawn(rng)
    /\ UNCHANGED <<sysvars, histvars, call, args, pc, i, result>>

\* lines 358-364: one iteration of the event loop
EventStep ==
    /\ pc = "event"
    /\ EventLoopCond(g, args.tmax)
    /\ Len(times) < MaxSamples
    /\ \E dt \in DrawDt(rng),
          th \in IF Absorbing(g) THEN {0} ELSE DrawThreshold(rng, TotalRate(g)) :
        /\ g' = AdvanceOneReaction(g, dt, th)
        /\ fires' = IF Absorbing(g) THEN fires
                    ELSE Append(fires, ChooseReaction(Propensities(g), th))
        /\ times' = Append(times, g'.t)
        /\ series' = PushSpecies(series, g')
    /\ rng' = IF Absorbing(g) THEN rng ELSE Drawn(rng)
    /\ UNCHANGED <<sysvars, histvars, call, args, pc, i, result>>

\* lines 366-370: the loop has ended, the result is built and returned
RunReturn ==
    /\ \/ pc = "grid" /\ i > args.nb_steps
       \/ pc = "event" /\ ~EventLoopCond(g, args.tmax)
    /\ result' = Some([times |-> times, species |-> ResultMap(species, series)])
    /\ pc' = "done"
    /\ UNCHANGED <<sysvars, histvars, call, args, g, rng, times, series, i, fires>>

\* the caller has the result; run's locals are dropped
DropLocals ==
    /\ pc = "done"
    /\ pc' = "idle"
    /\ args' = NoArgs
    /\ g' = EngineNew(Zeros(0))
    /\ rng' = NewRng(None)
    /\ times' = <<>>
    /\ series' = Zeros(0)
    /\ i' = 0
    /\ fires' = <<>>
    /\ result' = None
    /\ UNCHANGED <<sysvars, call>>

RunDrop == DropLocals /\ UNCHANGED histvars

----------------------------------------------------------------------------
(* The facade as a state machine *)

\* reaction shapes the calls of Spec draw from: decay (production when
\* reversed), conversion, dimerisation, and a species on both sides
\* (S + I -> I + I)
Shapes ==
    { <<<<"A">>, <<>>>>, <<<<"A">>, <<"B">>>>,
      <<<<"A", "A">>, <<"B">>>>, <<<<"B", "A">>, <<"A", "A">>>> }

AddSetsVars(rate, reactants, products, reverse_rate) ==
    LET sys == AddReaction(System, rate, reactants, products, reverse_rate)
    IN  /\ species' = sys.species
        /\ reactions' = sys.reactions
        /\ call' = [op |-> "add_reaction", rate |-> rate, reactants |-> reactants,
                    products |-> products, reverse_rate |-> reverse_rate]
        \* the list has changed: no later run is a run on the recorded list
        /\ prev' = None

\* add_reaction called with one of the shapes
AddReactionCall ==
    /\ pc = "idle"
    /\ \E sh \in Shapes, rate \in {1}, reverse_rate \in {None} \cup {Some(r) : r \in Rates} :
        /\ Len(reactions) + (IF reverse_rate = None THEN 1 ELSE 2) <= MaxReactions
        /\ AddSetsVars(rate, sh[1], sh[2], reverse_rate)
    /\ UNCHANGED runvars

\* Gillespie::new(), no run in progress
Init ==
    /\ species = EmptyMap
    /\ reactions = <<>>
    /\ call = [op |-> "new"]
    /\ pc = "idle"
    /\ args = NoArgs
    /\ g = EngineNew(Zeros(0))
    /\ rng = NewRng(None)
    /\ times = <<>>
    /\ series = Zeros(0)
    /\ i = 0
    /\ fires = <<>>
    /\ result = None
    /\ prev = None

Next ==
    \/ AddReactionCall
    \/ RunStart
    \/ GridPush
    \/ AdvanceCommit
    \/ AdvanceAbsorbing
    \/ AdvanceDiscard
    \/ EventStep
    \/ RunReturn
    \/ RunDrop

Spec == Init /\ [][Next]_vars

\* the number of names in the reaction list, repetitions counted
RECURSIVE NameCount(_)
NameCount(rs) ==
    IF rs = <<>> THEN 0
    ELSE Len(Head(rs).reactants) + Len(Head(rs).products) + NameCount(Tail(rs))

\* add_reaction called with any lists of at most MaxLen names
AddAnyCall ==
    /\ pc = "idle"
    /\ Len(reactions) < MaxAddReactions
    /\ \E reverse_rate \in {None, Some(0)} :
        /\ Len(reactions) + (IF reverse_rate = None THEN 1 ELSE 2) <= MaxAddReactions
        /\ LET left == MaxNames - NameCount(reactions)
           IN  \E reactants \in NameLists(Min(MaxLen, left)) :
                 \E products \in NameLists(Min(MaxLen, left - Len(reactants))) :
                   AddSetsVars(1, reactants, products, reverse_rate)
    /\ UNCHANGED runvars

NextAdd == AddAnyCall

\* the facade under add_reaction calls alone
SpecAdd == Init /\ [][NextAdd]_vars

\* the run arguments drawn where two runs are compared
ReproInits == {EmptyMap, [name \in {"A"} |-> 2], [name \in {"A", "B"} |-> 1]}
ReproSeeds == {1, 2}
ReproSteps == {0, 2}

RunStartRepro ==
    RunCall(ReproInits, {24}, ReproSteps, {None} \cup {Some(sd) : sd \in ReproSeeds})

\* the caller has the result of a seeded run and keeps it with the arguments
RunDropRecord ==
    /\ DropLocals
    /\ prev' = IF args.seed = None THEN prev
               ELSE Some([args |-> args, result |-> result[1]])

NextRepro ==
    \/ AddReactionCall
    \/ RunStartRepro
    \/ GridPush
    \/ AdvanceCommit
    \/ AdvanceAbsorbing
    \/ AdvanceDiscard
    \/ EventStep
    \/ RunReturn
    \/ RunDropRecord

\* the facade with the result of the last seeded run remembered
SpecRepro == Init /\ [][NextRepro]_vars

----------------------------------------------------------------------------
(* Properties *)

Range(f) == {f[k] : k \in DOMAIN f}

\* the names of the reaction list in the order the calls listed them
RECURSIVE SeenNames(_)
SeenNames(rs) ==
    IF rs = <<>> THEN <<>>
    ELSE Head(rs).reactants \o Head(rs).products \o SeenNames(Tail(rs))

\* a list without the later occurrences of its elements
RECURSIVE FirstAppearance(_)
FirstAppearance(list) ==
    IF list = <<>> THEN <<>>
    ELSE LET init == FirstAppearance(SubSeq(list, 1, Len(list) - 1))
             last == list[Len(list)]
         IN  IF last \in Range(init) THEN init ELSE Append(init, last)

\* the species map numbers the names 0, 1, ... in the order of their first appearance
IndexedInOrder(sp, rs) ==
    LET order == FirstAppearance(SeenNames(rs))
    IN  /\ DOMAIN sp = Range(order)
        /\ Cardinality(DOMAIN sp) = Len(order)
        /\ \A k \in 1..Len(order) : sp[order[k]] = k - 1

\* C3: after any sequence of add_reaction calls the species map is a
\* bijection between the names seen and 0..nb_species()-1, the indices
\* follow the order of first appearance (reactants, then products, call
\* after call), and every call keeps the index of every name already there.
C3_NameIndexBijection ==
    [][ /\ \A name \in DOMAIN species :
              name \in DOMAIN species' /\ species'[name] = species[name]
        /\ IndexedInOrder(species', reactions')
        /\ {species'[name] : name \in DOMAIN species'} = 0..(Cardinality(DOMAIN species') - 1)
      ]_vars

\* a second call has registered "A" last, after "C" and "B" of the first
C3_Witness ==
    /\ call.op = "add_reaction"
    /\ Len(reactions) = 2
    /\ reactions[1].reactants = <<"C", "B">>
    /\ reactions[2].products = <<"B", "A">>
    /\ species = [name \in AddNames |-> CASE name = "C" -> 0 [] name = "B" -> 1 [] OTHER -> 2]

\* C5: add_reaction with reverse_rate = r leaves the system in the state
\* that add_reaction without it, followed by add_reaction(r, products,
\* reactants), leaves it in; the reaction appended last is (r, products,
\* reactants).
C5_ReverseIsTwoCalls ==
    [][ (call'.op = "add_reaction" /\ call'.reverse_rate # None) =>
          LET c == call'
              one == AddReaction(System, c.rate, c.reactants, c.products, None)
              two == AddReaction(one, c.reverse_rate[1], c.products, c.reactants, None)
          IN  /\ species' = two.species
              /\ reactions' = two.reactions
              /\ reactions'[Len(reactions')] =
                     Reaction(c.reverse_rate[1], c.products, c.reactants)
      ]_vars

\* a call with a reverse rate, on a system that already had a reaction,
\* with reactants and products that differ and register new names
C5_Witness ==
    /\ call.op = "add_reaction"
    /\ call.reverse_rate # None
    /\ Len(reactions) = 3
    /\ call.reactants = <<"B", "A">>
    /\ call.products = <<"C">>
    /\ reactions[1].products = <<"A">>
    /\ reactions[3] = Reaction(0, <<"C">>, <<"B", "A">>)

\* an add_reaction call is a step from idle to idle
IsAddReaction == pc = "idle" /\ pc' = "idle"

\* C6: every add_reaction call keeps the reactions already in the list at
\* their indices and appends one reaction, or two with a reverse rate; no
\* other operation changes the list.
C6_AppendOnly ==
    [][ /\ Len(reactions') >= Len(reactions)
        /\ SubSeq(reactions', 1, Len(reactions)) = reactions
        /\ IsAddReaction =>
              Len(reactions') = Len(reactions) + (IF call'.reverse_rate = None THEN 1 ELSE 2)
        /\ ~IsAddReaction => reactions' = reactions
      ]_vars

\* a second call has appended a reaction after the first call's
C6_Witness ==
    /\ call.op = "add_reaction"
    /\ call.reverse_rate = None
    /\ Len(reactions) = 2
    /\ reactions[1].reactants = <<"A", "A">>
    /\ reactions[2].reactants = <<"A">>

\* the number of occurrences of a name in a list
Occurrences(name, list) == Cardinality({p \in 1..Len(list) : list[p] = name})

\* C4: during run, engine reaction j is the lowering of stored reaction j:
\* rate k, s_id the occurrences of species id among the reactants, d_id its
\* occurrences among the products minus those among the reactants, both of
\* length nb_species().
C4_Lowering ==
    pc # "idle" =>
        /\ Len(g.reactions) = Len(reactions)
        /\ \A j \in 1..Len(reactions) :
            /\ g.reactions[j].rate.k = reactions[j].rate
            /\ DOMAIN g.reactions[j].rate.s = 0..(NbSpecies - 1)
            /\ DOMAIN g.reactions[j].d = 0..(NbSpecies - 1)
            /\ \A name \in DOMAIN species :
                /\ g.reactions[j].rate.s[species[name]] =
                       Occurrences(name, reactions[j].reactants)
                /\ g.reactions[j].d[species[name]] =
                       Occurrences(name, reactions[j].products)
                       - Occurrences(name, reactions[j].reactants)

\* a run over a dimerisation (a repeated reactant) and a reaction with a
\* species on both sides
C4_Witness ==
    /\ pc = "event"
    /\ Len(reactions) = 2
    /\ reactions[1].reactants = <<"A", "A">>
    /\ reactions[2].reactants = <<"B", "A">>
    /\ reactions[2].products = <<"A", "A">>
    /\ g.reactions[1].rate.s[species["A"]] = 2
    /\ g.reactions[1].d[species["A"]] = -2
    /\ g.reactions[2].d[species["A"]] = 1

C8_SeriesLength ==
    pc = "done" =>
        /\ DOMAIN result[1].species = DOMAIN species
        /\ \A name \in DOMAIN species :
              Len(result[1].species[name]) = Len(result[1].times)

\* a finished event-mode run over two species with three samples
C8_Witness ==
    /\ pc = "done"
    /\ args.nb_steps = 0
    /\ NbSpecies = 2
    /\ Len(result[1].times) = 3
    /\ Len(fires) = 2

\* the count vector of sample k
Sample(k) == [s \in DOMAIN series |-> series[s][k]]

\* C9: a finished event-mode run whose every step fired a reaction: every
\* time but the last is below tmax, the last is at or after tmax, and the
\* last sample is the one before it changed by the last reaction fired.
C9_EventOvershoot ==
    (pc = "done" /\ args.nb_steps = 0 /\ Len(times) = 1 + Len(fires)) =>
        LET n == Len(times)
        IN  /\ \A k \in 1..(n - 1) : times[k] < args.tmax
            /\ times[n] >= args.tmax
            /\ n > 1 =>
                 /\ \A s \in DOMAIN series :
                       series[s][n] = series[s][n - 1] + g.reactions[fires[n - 1]].d[s]
                 /\ Sample(n) = g.x

\* a finished event-mode run whose last reaction fired after tmax and
\* changed the counts
C9_Witness ==
    /\ pc = "done"
    /\ args.nb_steps = 0
    /\ Len(times) = 3
    /\ Len(fires) = 2
    /\ times[3] > args.tmax
    /\ times[2] > 0
    /\ Sample(3) # Sample(2)

\* C1: in event mode, once the engine is in an absorbing state at a time
\* below tmax, emission has stopped: no further sample is emitted, and the
\* last emitted time is the time of that state.
C1_EmissionStopsWhenAbsorbing ==
    [][ (pc = "event" /\ Absorbing(g) /\ g.t < args.tmax) => times' = times ]_vars

\* C2: in event mode the samples are the starting state and one per
\* reaction fired; a step call that fires nothing emits nothing.
C2_OneSamplePerFiring ==
    (pc \in {"event", "done"} /\ args.nb_steps = 0) => Len(times) = 1 + Len(fires)

\* C10: the times run emits are non-decreasing.
C10_EmittedTimesNonDecreasing ==
    \A k \in 1..(Len(times) - 1) : times[k] <= times[k + 1]

\* C11: a seeded run with the arguments of the last seeded run on the same
\* reaction list returns the (times, species) that run returned, whatever
\* unseeded runs were made in between.
C11_Reproducible ==
    (pc = "done" /\ args.seed # None /\ prev # None /\ prev[1].args = args) =>
        result[1] = prev[1].result

\* a seeded grid run in which reactions fired returns what the seeded run
\* before it returned
C11_Witness ==
    /\ pc = "done"
    /\ args.seed # None
    /\ args.nb_steps > 0
    /\ Len(fires) > 0
    /\ prev # None
    /\ prev[1].args = args
    /\ result[1] = prev[1].result
    /\ \E name \in DOMAIN species :
          result[1].species[name][1] # result[1].species[name][args.nb_steps + 1]

\* a step that enters run
IsRunStart == pc = "idle" /\ pc' \in {"grid", "event"}

\* C12: run starts its engine with init[name] (as an isize) for every
\* registered name of init and 0 for every other registered name, a name of init that is not
\* registered is not registered by run and is not a key of the output, and
\* no step of run changes the species map or the reaction list
\* (nb_species() and nb_reactions() stay as they were).
C12_InitOnlyRegistered ==
    [][ /\ IsRunStart =>
              /\ DOMAIN g'.x = 0..(NbSpecies - 1)
              /\ \A name \in DOMAIN species :
                    g'.x[species[name]] =
                        IF name \in DOMAIN args'.init THEN AsIsize(args'.init[name]) ELSE 0
        /\ ~IsAddReaction =>
              /\ species' = species
              /\ reactions' = reactions
              /\ Cardinality(DOMAIN species') = NbSpecies
              /\ Len(reactions') = NbReactions
        /\ pc' = "done" => DOMAIN result'[1].species = DOMAIN species
      ]_vars

\* a finished run whose init names the unregistered "B" and leaves out the
\* registered "A": "A" started at 0 and "B" is not in the output
C12_Witness ==
    /\ pc = "done"
    /\ args.nb_steps = 0
    /\ Len(reactions) > 0
    /\ "B" \in DOMAIN args.init
    /\ "B" \notin DOMAIN species
    /\ "A" \in DOMAIN species
    /\ "A" \notin DOMAIN args.init
    /\ result[1].species["A"][1] = 0
    /\ DOMAIN result[1].species = {"A"}

\* the first iteration of the event loop, from a state in which a reaction
\* can fire
IsFirstEvent ==
    /\ pc = "event"
    /\ Len(times) = 1
    /\ Len(reactions) > 0
    /\ TotalRate(g) > 0
    /\ Len(times') = 2

Total(x) == SumUpTo([k \in 1..Cardinality(DOMAIN x) |-> x[k - 1]], Cardinality(DOMAIN x))

\* the sum of the initial counts of the registered species
RECURSIVE InitTotal(_)
InitTotal(names) ==
    IF names = {} THEN 0
    ELSE LET name == CHOOSE n \in names : TRUE
         IN  AsIsize(args.init[name]) + InitTotal(names \ {name})

\* the number of samples pushed so far
NbSamples == IF NbSpecies = 0 THEN 0 ELSE Len(series[0])

\* every stored reaction has as many products as reactants
Balanced == \A j \in 1..Len(reactions) : Len(reactions[j].products) = Len(reactions[j].reactants)

\* C14: in a run over reactions that all have as many products as
\* reactants, the counts of every sample pushed, in grid mode and in event
\* mode, add up to the sum of the initial counts.
C14_Conservation ==
    (pc # "idle" /\ Balanced) =>
        \A k \in 1..NbSamples :
            Total(Sample(k)) = InitTotal(DOMAIN args.init \cap DOMAIN species)

\* a finished grid run over B + A -> A + A in which the reaction fired
\* between the first and the last sample
C14_Witness ==
    /\ pc = "done"
    /\ args.nb_steps > 0
    /\ Balanced
    /\ \E j \in 1..Len(reactions) :
          reactions[j].reactants = <<"B", "A">> /\ reactions[j].products = <<"A", "A">>
    /\ Len(fires) > 0
    /\ Sample(NbSamples) # Sample(1)
    /\ Total(Sample(NbSamples)) = 3

\* r2 is r1 with its reactants and products swapped
IsReverse(r1, r2) == r2.reactants = r1.products /\ r2.products = r1.reactants

\* C15: in a run, for a stored reaction j and a stored reaction m that is
\* j with reactants and products swapped (as the reverse_rate of
\* add_reaction adds it), the lowered change vector of m is the negation of
\* that of j for every species, applying j and then m leaves the count
\* vector as it was, and in event mode a firing of j followed by a firing
\* of m emits the counts emitted before the two.
C15_ReverseRestores ==
    pc # "idle" =>
        \A j, m \in 1..Len(reactions) :
            IsReverse(reactions[j], reactions[m]) =>
                /\ \A id \in DOMAIN g.x :
                      g.reactions[m].d[id] = 0 - g.reactions[j].d[id]
                /\ Commit(Commit(g, 0, j), 0, m).x = g.x
                /\ args.nb_steps = 0 =>
                      \A k \in 1..(Len(fires) - 1) :
                          (fires[k] = j /\ fires[k + 1] = m) => Sample(k + 2) = Sample(k)

\* an event-mode run over A + A -> B and its reverse, in which the
\* reaction fired and then its reverse
C15_Witness ==
    /\ pc \in {"event", "done"}
    /\ args.nb_steps = 0
    /\ Len(reactions) = 2
    /\ reactions[1] = Reaction(1, <<"A", "A">>, <<"B">>)
    /\ reactions[2] = Reaction(1, <<"B">>, <<"A", "A">>)
    /\ fires = <<1, 2>>
    /\ Sample(2) # Sample(1)
    /\ Sample(3) = Sample(1)

\* C16: in a run, every count of the engine and of every sample pushed is
\* >= 0: a reaction with a reactant i at x_i < s_i has propensity 0, and
\* every lowered change vector has d_i >= -s_i.
C16_NonNegative ==
    pc # "idle" =>
        /\ \A id \in DOMAIN g.x : g.x[id] >= 0
        /\ \A k \in 1..NbSamples : \A id \in DOMAIN series : series[id][k] >= 0
        /\ \A j \in 1..Len(g.reactions) :
              /\ \A id \in DOMAIN g.x :
                    g.reactions[j].d[id] >= 0 - g.reactions[j].rate.s[id]
              /\ (\E id \in DOMAIN g.x : g.x[id] < g.reactions[j].rate.s[id]) =>
                    Propensities(g)[j] = 0

\* the count run starts a registered name at
InitialCount(name) ==
    IF name \in DOMAIN args.init THEN AsIsize(args.init[name]) ELSE 0

\* no stored reaction can fire at the initial counts: its rate is 0 or it
\* has more occurrences of a reactant than the reactant's initial count
NothingCanFire ==
    \A j \in 1..Len(reactions) :
        \/ reactions[j].rate = 0
        \/ \E name \in DOMAIN species :
              Occurrences(name, reactions[j].reactants) > InitialCount(name)

\* C17: in a grid-mode run on a system in which no reaction can fire at
\* the initial counts (no reaction at all, or every propensity 0), every
\* sample pushed is the initial count vector, and the finished run has
\* nb_steps + 1 samples at the nb_steps + 1 times of the grid.
C17_AbsorbingGrid ==
    (pc \in {"grid", "advance", "done"} /\ args.nb_steps > 0 /\ NothingCanFire) =>
        /\ \A k \in 1..NbSamples : \A name \in DOMAIN species :
              series[species[name]][k] = InitialCount(name)
        /\ pc = "done" =>
              /\ Len(result[1].times) = args.nb_steps + 1
              /\ \A k \in 0..args.nb_steps :
                    result[1].times[k + 1] = GridTime(args.tmax, k, args.nb_steps)
              /\ \A name \in DOMAIN species :
                    /\ Len(result[1].species[name]) = args.nb_steps + 1
                    /\ \A k \in 1..(args.nb_steps + 1) :
                          result[1].species[name][k] = InitialCount(name)

\* a finished grid run over A + A -> B started with one A: the reaction
\* cannot fire and the four samples are the initial counts
C17_Witness ==
    /\ pc = "done"
    /\ args.nb_steps = 3
    /\ args.tmax > 0
    /\ Len(reactions) = 1
    /\ reactions[1] = Reaction(1, <<"A", "A">>, <<"B">>)
    /\ "A" \in DOMAIN args.init
    /\ args.init["A"] = 1
    /\ result[1].species["A"] = <<1, 1, 1, 1>>
    /\ result[1].times = <<0, 8, 16, 20>>

====
